---- MODULE Spec2Model ----
(***************************************************************************)
(* GeoVision viewer (src/basic/main.js): BasemapManager and                *)
(* SimpleModelViewer as a state machine.  Every action is one turn of the  *)
(* browser's single-threaded event loop: a DOM event handler up to its     *)
(* first await, the completion callback of an asset fetch together with    *)
(* the continuation of the handler that awaited it, or one animation       *)
(* frame.                                                                  *)
(***************************************************************************)
EXTENDS Integers, Sequences, FiniteSets, Bags, TLC

\* ---------------------------------------------------------------- bounds
\* Texture fetches that may be in flight at once.
MaxInFlight == 2

\* ------------------------------------------------------------- constants
Null == "null"
\* this.mapMesh === null
NoMesh == 0
\* no material map: there is no mesh yet
NoTexture == [src |-> Null, wrap |-> Null, repeat |-> <<0, 0>>]

\* values of the basemap-type selector
BasemapTypes == {"osm", "satellite", "dark"}

SatelliteUrl == "https://server.arcgisonline.com/ArcGIS/rest/services/World_Imagery/MapServer/tile/0/0/0"
DarkUrl == "https://a.basemaps.cartocdn.com/dark_all/0/0/0.png"
OsmUrl == "https://a.tile.openstreetmap.org/0/0/0.png"

\* the switch of loadBasemap
UrlOf(type) ==
  CASE type = "satellite" -> SatelliteUrl
    [] type = "dark" -> DarkUrl
    [] OTHER -> OsmUrl

\* the texture handed to the onLoad callback, after lines 30-31
LoadedTexture(url) ==
  [src |-> url, wrap |-> "RepeatWrapping", repeat |-> <<20, 20>>]

VARIABLES
  \* BasemapManager
  mapMesh,        \* identity of this.mapMesh (NoMesh, or the ordinal of the mesh's creation)
  groundMeshes,   \* ground-plane meshes among scene.children, by identity
  mapTexture,     \* mapMesh.material.map
  mapVisible,     \* mapMesh.visible
  inflight,       \* pending loadBasemap promises (a bag: any of them may settle next)
  lastResolved,   \* url of the texture of the most recently resolved loadBasemap
  lastSettle,     \* how the most recently settled loadBasemap promise ended
  \* SimpleModelViewer
  showOSM,
  basemapType,
  isNight,
  background,         \* scene.background
  ambientLight,
  directionalLight,
  hemisphereLight,
  lastFrame,          \* what the last renderer.render drew of the sky and the lights
  model,              \* this.model: NoModel, or the loaded asset's root
  modelPositionY,     \* model.position.y
  cameraPosition,     \* camera.position, in thousandths of a unit
  controlsTarget,     \* controls.target, in thousandths of a unit
  initialized,
  overlay,            \* #loading-overlay
  mouse,              \* this.mouse: the screen cell of the last click
  selectedObject,
  emissive,           \* material.emissive of the model's materials
  panel               \* #info-panel, #object-name, #object-details

basemapVars == <<mapMesh, groundMeshes, mapTexture, mapVisible, inflight,
                 lastResolved, lastSettle, showOSM, basemapType>>

lightVars == <<isNight, background, ambientLight, directionalLight, hemisphereLight>>

modelVars == <<model, modelPositionY, cameraPosition, controlsTarget, initialized, overlay>>

pickVars == <<mouse, selectedObject, emissive, panel>>

vars == <<basemapVars, lightVars, lastFrame, modelVars, pickVars>>

\* ------------------------------------------------------- BasemapManager
\* a createOrUpdateMap that builds a mesh on every call
createOrUpdateMap_recreate(texture) ==
  LET new == Cardinality(groundMeshes) + 1 IN
  [mesh |-> new, meshes |-> groundMeshes \cup {new},
   texture |-> texture, visible |-> TRUE]

\* a createOrUpdateMap that leaves the map of an existing mesh alone
createOrUpdateMap_keepsMap(texture) ==
  IF mapMesh # NoMesh
    THEN [mesh |-> mapMesh, meshes |-> groundMeshes,
          texture |-> mapTexture, visible |-> mapVisible]
    ELSE LET new == Cardinality(groundMeshes) + 1 IN
         [mesh |-> new, meshes |-> groundMeshes \cup {new},
          texture |-> texture, visible |-> TRUE]

\* createOrUpdateMap(texture): the manager's fields after the call
createOrUpdateMap(texture) ==
  IF mapMesh # NoMesh
    THEN [mesh |-> mapMesh, meshes |-> groundMeshes,
          texture |-> texture, visible |-> mapVisible]
    ELSE LET new == Cardinality(groundMeshes) + 1 IN
         [mesh |-> new, meshes |-> groundMeshes \cup {new},
          texture |-> texture, visible |-> TRUE]

\* setVisible(visible) on a manager whose mesh is m and whose flag is cur
setVisible(m, cur, visible) == IF m # NoMesh THEN visible ELSE cur

\* loadBasemap(type) up to the return of the promise: the fetch is issued
loadBasemap(type, continuation) ==
  /\ BagCardinality(inflight) < MaxInFlight
  /\ inflight' = inflight (+) SetToBag({[url |-> UrlOf(type), then |-> continuation]})

\* a pending request: its url, and what the handler awaiting it does next
Requests == [url : {UrlOf(t) : t \in BasemapTypes}, then : {"setVisible", "none"}]

\* ---------------------------------------------------- SimpleModelViewer
\* Light intensities are in tenths (3 is 0.3), colours are the hex literals.
setupLighting ==
  [ambient |-> [color |-> "0xffffff", intensity |-> 3],
   directional |-> [color |-> "0xffffff", intensity |-> 15, position |-> <<100, 150, 50>>],
   hemisphere |-> [skyColor |-> "0x87CEEB", groundColor |-> "0x6b5d47", intensity |-> 5]]

\* an updateLighting whose night branch forgets the hemisphere light
updateLighting_partial(night) ==
  IF night
    THEN [ambient |-> [ambientLight EXCEPT !.intensity = 1],
          directional |-> [color |-> "0x6495ED", intensity |-> 3, position |-> <<-100, 80, -50>>],
          hemisphere |-> hemisphereLight]
    ELSE [ambient |-> [ambientLight EXCEPT !.intensity = 3],
          directional |-> [color |-> "0xffffff", intensity |-> 15, position |-> <<100, 150, 50>>],
          hemisphere |-> [skyColor |-> "0x87CEEB", groundColor |-> "0x6b5d47", intensity |-> 5]]

\* updateLighting() under this.isNight = night: the three lights after the call
updateLighting(night) ==
  IF night
    THEN [ambient |-> [ambientLight EXCEPT !.intensity = 1],
          directional |-> [color |-> "0x6495ED", intensity |-> 3, position |-> <<-100, 80, -50>>],
          hemisphere |-> [skyColor |-> "0x0a1929", groundColor |-> "0x1a1a2e", intensity |-> 2]]
    ELSE [ambient |-> [ambientLight EXCEPT !.intensity = 3],
          directional |-> [color |-> "0xffffff", intensity |-> 15, position |-> <<100, 150, 50>>],
          hemisphere |-> [skyColor |-> "0x87CEEB", groundColor |-> "0x6b5d47", intensity |-> 5]]

\* updateBackground() under this.isNight = night
updateBackground(night) == IF night THEN "0x0a1929" ELSE "0x87CEEB"

\* renderer.render(scene, camera): the sky and the lights the frame is drawn with
render ==
  [background |-> background, ambient |-> ambientLight,
   directional |-> directionalLight, hemisphere |-> hemisphereLight]

\* ------------------------------------------------------- camera fitting
\* this.model === null
NoModel == [minY |-> 0, size |-> <<0, 0, 0>>, loaded |-> FALSE]

\* The assets the loader may hand over. The geometry of an asset spans
\* size[1] x size[2] x size[3] around the root's x = z = 0, from minY upwards
\* in the root's frame; rootY is the root's own position.y. The sizes keep
\* the fitted camera between the controls' minDistance and maxDistance, where
\* controls.update() leaves it as placed.
Assets ==
  {[minY |-> -2, rootY |-> 0, size |-> <<40, 60, 20>>],
   [minY |-> 4, rootY |-> 3, size |-> <<20, 30, 50>>]}

\* camera.fov, degrees
Fov == 75
\* sin(Fov / 2 degrees), in thousandths
SinHalfFov == 609

Max2(a, b) == IF a >= b THEN a ELSE b
Abs(a) == IF a >= 0 THEN a ELSE -a

\* new THREE.Box3().setFromObject(model): the world-space box, with the
\* root at height posY
setFromObject(m, posY) ==
  [min |-> <<-(m.size[1] \div 2), m.minY + posY, -(m.size[3] \div 2)>>,
   max |-> <<m.size[1] \div 2, m.minY + posY + m.size[2], m.size[3] \div 2>>]

getCenter(box) == [k \in 1..3 |-> (box.min[k] + box.max[k]) \div 2]
getSize(box) == [k \in 1..3 |-> box.max[k] - box.min[k]]

\* an initializeModel without the initialized guard
initializeModel_unguarded(m, posY, done) ==
  IF ~m.loaded
    THEN [positionY |-> posY, camera |-> cameraPosition,
          target |-> controlsTarget, initialized |-> done]
    ELSE LET box == setFromObject(m, posY)
             yOffset == -box.min[2]
             newBox == setFromObject(m, yOffset)
             center == getCenter(newBox)
             size == getSize(newBox)
             maxDim == Max2(size[1], Max2(size[2], size[3]))
             distance == (Abs((maxDim * 1000000) \div SinHalfFov) * 12) \div 10
         IN [positionY |-> yOffset,
             camera |-> <<center[1] * 1000 + (distance * 5) \div 10,
                          center[2] * 1000 + (distance * 8) \div 10,
                          center[3] * 1000 + (distance * 5) \div 10>>,
             target |-> [k \in 1..3 |-> center[k] * 1000],
             initialized |-> TRUE]

\* initializeModel() on model m at height posY: the fields it leaves
\* (lengths of the camera and the target in thousandths)
initializeModel(m, posY, done) ==
  IF ~m.loaded \/ done
    THEN [positionY |-> posY, camera |-> cameraPosition,
          target |-> controlsTarget, initialized |-> done]
    ELSE LET box == setFromObject(m, posY)
             yOffset == -box.min[2]
             newBox == setFromObject(m, yOffset)
             center == getCenter(newBox)
             size == getSize(newBox)
             maxDim == Max2(size[1], Max2(size[2], size[3]))
             distance == (Abs((maxDim * 1000000) \div SinHalfFov) * 12) \div 10
         IN [positionY |-> yOffset,
             camera |-> <<center[1] * 1000 + (distance * 5) \div 10,
                          center[2] * 1000 + (distance * 8) \div 10,
                          center[3] * 1000 + (distance * 5) \div 10>>,
             target |-> [k \in 1..3 |-> center[k] * 1000],
             initialized |-> TRUE]

\* loadModel(): the asset arrives
ModelLoaded(asset) ==
  /\ overlay = "loading"
  /\ LET m == [minY |-> asset.minY, size |-> asset.size, loaded |-> TRUE]
         fit == initializeModel(m, asset.rootY, initialized)
     IN /\ model' = m
        /\ modelPositionY' = fit.positionY
        /\ cameraPosition' = fit.camera
        /\ controlsTarget' = fit.target
        /\ initialized' = fit.initialized
  /\ overlay' = "hidden"
  /\ UNCHANGED <<basemapVars, lightVars, lastFrame, pickVars>>

\* loadModel(): the fetch fails
ModelFailed ==
  /\ overlay = "loading"
  /\ overlay' = "Failed to load 3D model"
  /\ UNCHANGED <<model, modelPositionY, cameraPosition, controlsTarget, initialized>>
  /\ UNCHANGED <<basemapVars, lightVars, lastFrame, pickVars>>

\* a further call of initializeModel()
InitializeModelAgain ==
  /\ LET fit == initializeModel(model, modelPositionY, initialized)
     IN /\ modelPositionY' = fit.positionY
        /\ cameraPosition' = fit.camera
        /\ controlsTarget' = fit.target
        /\ initialized' = fit.initialized
  /\ UNCHANGED <<model, overlay, basemapVars, lightVars, lastFrame, pickVars>>

\* --------------------------------------------------------------- picking
\* The meshes of the asset, the material each uses (two share one), and
\* the ground plane with its MeshBasicMaterial.
ModelObjects == {"o1", "o2", "o3"}
Ground == "ground"
MaterialOf(o) ==
  CASE o = "o1" -> "m1"
    [] o = "o2" -> "m2"
    [] o = "o3" -> "m2"
    [] OTHER -> "basic"
\* materials with an emissive colour
Emissive == {"m1", "m2"}
NameOf(o) == IF o = "o1" THEN "Tower" ELSE IF o = "o3" THEN "Wall" ELSE ""
UserData(o) == IF o = "o1" THEN <<<<"height", "10">>>> ELSE <<>>

Neutral == "0x000000"
Accent == "0xffd700"

Cells == {"center", "left", "right", "bottom", "top"}

\* raycaster.intersectObjects(scene.children, true)[0].object for a click
\* in the cell, Null when the ray meets nothing
Intersect(cell) ==
  LET plane == IF mapMesh # NoMesh THEN Ground ELSE Null
      at(o) == IF model.loaded THEN o ELSE plane
  IN CASE cell = "center" -> at("o1")
       [] cell = "left" -> at("o2")
       [] cell = "right" -> at("o3")
       [] cell = "bottom" -> plane
       [] OTHER -> Null

showObjectInfo(object) ==
  [name |-> IF NameOf(object) # "" THEN NameOf(object) ELSE "Unnamed Object",
   details |-> IF Len(UserData(object)) > 0
                 THEN [k \in 1..Len(UserData(object)) |->
                         <<"div", UserData(object)[k][1], UserData(object)[k][2]>>]
                 ELSE <<<<"i", "No attributes">>>>,
   display |-> "block"]

\* a highlightObject that never resets the previous selection
highlightObject_noReset(object) ==
  IF MaterialOf(object) \in Emissive
    THEN [emissive EXCEPT ![MaterialOf(object)] = Accent]
    ELSE emissive

\* highlightObject(object): the emissive colours after the call
highlightObject(object) ==
  LET reset == IF selectedObject # Null /\ MaterialOf(selectedObject) \in Emissive
                 THEN [emissive EXCEPT ![MaterialOf(selectedObject)] = Neutral]
                 ELSE emissive
  IN IF MaterialOf(object) \in Emissive
       THEN [reset EXCEPT ![MaterialOf(object)] = Accent]
       ELSE reset

\* an onClick that deselects when the ray meets nothing
onClick_deselects(cell) ==
  /\ mouse' = cell
  /\ LET object == Intersect(cell)
     IN IF object # Null
          THEN /\ panel' = showObjectInfo(object)
               /\ emissive' = highlightObject(object)
               /\ selectedObject' = object
          ELSE /\ panel' = [panel EXCEPT !.display = "none"]
               /\ emissive' = [m \in Emissive |-> Neutral]
               /\ selectedObject' = Null
  /\ UNCHANGED <<basemapVars, lightVars, lastFrame, modelVars>>

\* 'click' on the canvas
onClick(cell) ==
  /\ mouse' = cell
  /\ LET object == Intersect(cell)
     IN IF object # Null
          THEN /\ panel' = showObjectInfo(object)
               /\ emissive' = highlightObject(object)
               /\ selectedObject' = object
          ELSE UNCHANGED <<panel, emissive, selectedObject>>
  /\ UNCHANGED <<basemapVars, lightVars, lastFrame, modelVars>>

\* 'change' on #night-mode-toggle
NightModeToggle ==
  LET checked == ~isNight IN
  /\ isNight' = checked
  /\ background' = updateBackground(checked)
  /\ ambientLight' = updateLighting(checked).ambient
  /\ directionalLight' = updateLighting(checked).directional
  /\ hemisphereLight' = updateLighting(checked).hemisphere
  /\ UNCHANGED <<basemapVars, lastFrame, modelVars, pickVars>>

\* animate(): one frame
animate ==
  /\ lastFrame' = render
  /\ UNCHANGED <<basemapVars, lightVars, modelVars, pickVars>>

\* ------------------------------------------------------------ handlers
\* 'change' on #basemap-toggle
BasemapToggle ==
  LET checked == ~showOSM IN
  /\ showOSM' = checked
  /\ IF checked
       THEN /\ loadBasemap(basemapType, "setVisible")
            /\ UNCHANGED mapVisible
       ELSE /\ mapVisible' = setVisible(mapMesh, mapVisible, FALSE)
            /\ UNCHANGED inflight
  /\ UNCHANGED <<mapMesh, groundMeshes, mapTexture, lastResolved, lastSettle, basemapType,
               lightVars, lastFrame, modelVars, pickVars>>

\* 'change' on #basemap-type
BasemapTypeChange(value) ==
  /\ value # basemapType
  /\ basemapType' = value
  /\ IF showOSM
       THEN loadBasemap(value, "none")
       ELSE UNCHANGED inflight
  /\ UNCHANGED <<mapMesh, groundMeshes, mapTexture, mapVisible, lastResolved, lastSettle, showOSM,
               lightVars, lastFrame, modelVars, pickVars>>

\* onLoad of a pending fetch, then the continuation of its handler
TextureLoaded(req) ==
  /\ BagIn(req, inflight)
  /\ LET m == createOrUpdateMap(LoadedTexture(req.url))
     IN /\ mapMesh' = m.mesh
        /\ groundMeshes' = m.meshes
        /\ mapTexture' = m.texture
        /\ mapVisible' = IF req.then = "setVisible"
                           THEN setVisible(m.mesh, m.visible, TRUE)
                           ELSE m.visible
        /\ lastResolved' = req.url
  /\ lastSettle' = "fulfilled"
  /\ inflight' = inflight (-) SetToBag({req})
  /\ UNCHANGED <<showOSM, basemapType, lightVars, lastFrame, modelVars, pickVars>>

\* an onError that resolves: the failure is swallowed and the handler goes on
TextureFailed_swallowed(req) ==
  /\ BagIn(req, inflight)
  /\ inflight' = inflight (-) SetToBag({req})
  /\ lastSettle' = "fulfilled"
  /\ mapVisible' = IF req.then = "setVisible"
                     THEN setVisible(mapMesh, mapVisible, TRUE)
                     ELSE mapVisible
  /\ UNCHANGED <<mapMesh, groundMeshes, mapTexture, lastResolved, showOSM, basemapType,
               lightVars, lastFrame, modelVars, pickVars>>

\* onError of a pending fetch: reject, the awaiting handler throws
TextureFailed(req) ==
  /\ BagIn(req, inflight)
  /\ inflight' = inflight (-) SetToBag({req})
  /\ lastSettle' = "rejected"
  /\ UNCHANGED <<mapMesh, groundMeshes, mapTexture, mapVisible, lastResolved, showOSM, basemapType,
               lightVars, lastFrame, modelVars, pickVars>>

Init ==
  /\ mapMesh = NoMesh
  /\ groundMeshes = {}
  /\ mapTexture = NoTexture
  /\ mapVisible = FALSE
  /\ inflight = EmptyBag
  /\ lastResolved = Null
  /\ lastSettle = "none"
  /\ showOSM = FALSE
  /\ basemapType = "osm"
  /\ isNight = FALSE
  /\ background = updateBackground(FALSE)
  /\ ambientLight = setupLighting.ambient
  /\ directionalLight = setupLighting.directional
  /\ hemisphereLight = setupLighting.hemisphere
  /\ lastFrame = [background |-> updateBackground(FALSE), ambient |-> setupLighting.ambient,
                  directional |-> setupLighting.directional,
                  hemisphere |-> setupLighting.hemisphere]
  /\ model = NoModel
  /\ modelPositionY = 0
  /\ cameraPosition = <<0, 100000, 200000>>
  /\ controlsTarget = <<0, 0, 0>>
  /\ initialized = FALSE
  /\ overlay = "loading"
  /\ mouse = "center"
  /\ selectedObject = Null
  /\ emissive = [m \in Emissive |-> Neutral]
  /\ panel = [name |-> "", details |-> <<>>, display |-> "none"]

Next ==
  \/ BasemapToggle
  \/ \E value \in BasemapTypes : BasemapTypeChange(value)
  \/ \E req \in Requests : TextureLoaded(req)
  \/ \E req \in Requests : TextureFailed(req)
  \/ NightModeToggle
  \/ animate
  \/ \E asset \in Assets : ModelLoaded(asset)
  \/ ModelFailed
  \/ InitializeModelAgain
  \/ \E cell \in Cells : onClick(cell)

Spec == Init /\ [][Next]_vars

\* ------------------------------------------------------------ properties
\* the objects a ray can meet in the current scene
SceneObjects ==
  (IF model.loaded THEN ModelObjects ELSE {}) \cup (IF mapMesh # NoMesh THEN {Ground} ELSE {})

\* the emissive colour an object is drawn with, Neutral when it has none
Highlight(o) == IF MaterialOf(o) \in Emissive THEN emissive[MaterialOf(o)] ELSE Neutral

DayValues ==
  /\ background = "0x87CEEB"
  /\ ambientLight.intensity = 3
  /\ directionalLight = [color |-> "0xffffff", intensity |-> 15, position |-> <<100, 150, 50>>]
  /\ hemisphereLight = [skyColor |-> "0x87CEEB", groundColor |-> "0x6b5d47", intensity |-> 5]

NightValues ==
  /\ background = "0x0a1929"
  /\ ambientLight.intensity = 1
  /\ directionalLight = [color |-> "0x6495ED", intensity |-> 3, position |-> <<-100, 80, -50>>]
  /\ hemisphereLight = [skyColor |-> "0x0a1929", groundColor |-> "0x1a1a2e", intensity |-> 2]

DayFrame ==
  /\ lastFrame.background = "0x87CEEB"
  /\ lastFrame.ambient.intensity = 3
  /\ lastFrame.directional.intensity = 15
  /\ lastFrame.hemisphere.intensity = 5

NightFrame ==
  /\ lastFrame.background = "0x0a1929"
  /\ lastFrame.ambient.intensity = 1
  /\ lastFrame.directional.intensity = 3
  /\ lastFrame.hemisphere.intensity = 2

\* C1: the scene holds at most one ground-plane mesh, it is the one
\* this.mapMesh names, and it is the first one ever created: once mapMesh is
\* set, no step changes it or the set of ground-plane meshes in the scene.
C1_GroundPlaneUnique ==
  /\ [](/\ Cardinality(groundMeshes) <= 1
        /\ (mapMesh = NoMesh => groundMeshes = {})
        /\ (mapMesh # NoMesh => mapMesh = 1 /\ groundMeshes = {mapMesh}))
  /\ [][mapMesh # NoMesh => mapMesh' = mapMesh /\ groundMeshes' = groundMeshes]_vars

\* A texture was swapped into the existing mesh: the mesh is hidden although
\* the checkbox is on and nothing is pending, so the fetch of the last
\* toggle-on failed and a later type-change fetch resolved on the hidden mesh.
C1_Witness ==
  /\ mapMesh # NoMesh
  /\ showOSM
  /\ ~mapVisible
  /\ lastSettle = "fulfilled"
  /\ inflight = EmptyBag

\* C2: while the basemap checkbox is off, the ground-plane mesh, if there
\* is one, is not visible.
C2_HiddenWhileOff == (~showOSM /\ mapMesh # NoMesh) => ~mapVisible

\* C3: the mesh's texture is the texture of the most recently resolved
\* loadBasemap request, whatever was requested since.
C3_LastResolvedWins ==
  /\ (mapMesh # NoMesh => mapTexture = LoadedTexture(lastResolved))
  /\ (mapMesh = NoMesh => lastResolved = Null /\ mapTexture = NoTexture)

\* Every fetch has settled, the last one successfully, the checkbox is on,
\* and the texture shown is not the one of the selected basemapType: an
\* earlier request resolved after the request for the selected type.
C3_Witness ==
  /\ showOSM
  /\ inflight = EmptyBag
  /\ lastSettle = "fulfilled"
  /\ mapMesh # NoMesh
  /\ mapTexture.src # UrlOf(basemapType)

C5_FitOnce ==
  [][/\ (initialized =>
           UNCHANGED <<cameraPosition, controlsTarget, modelPositionY, initialized>>)
     /\ (~model.loaded /\ ~model'.loaded =>
           /\ UNCHANGED <<cameraPosition, controlsTarget, modelPositionY>>
           /\ ~initialized')
     /\ (~initialized /\ initialized' =>
           /\ model'.loaded
           /\ modelPositionY' \in {-(a.minY + a.rootY) : a \in {b \in Assets : b.minY = model'.minY}}
           /\ controlsTarget' = [k \in 1..3 |->
                                  1000 * getCenter(setFromObject(model', modelPositionY'))[k]]
           /\ cameraPosition' # cameraPosition
           /\ \A k \in 1..3 : cameraPosition'[k] > controlsTarget'[k])]_vars

\* the model has been fitted
C5_Witness == initialized /\ model.loaded /\ cameraPosition # <<0, 100000, 200000>>

C7_SelectResetsPrevious ==
  [][\A cell \in Cells :
       (onClick(cell) /\ Intersect(cell) # Null) =>
         LET a == selectedObject
             b == Intersect(cell)
         IN /\ selectedObject' = b
            /\ (MaterialOf(b) \in Emissive => emissive'[MaterialOf(b)] = Accent)
            /\ (a # Null /\ MaterialOf(a) \in Emissive /\ MaterialOf(a) # MaterialOf(b)
                  => emissive'[MaterialOf(a)] = Neutral)
            /\ \A m \in Emissive :
                 (m # MaterialOf(b) /\ (a = Null \/ m # MaterialOf(a)))
                   => emissive'[m] = emissive[m]]_vars

\* o2 has been clicked: it is selected and highlighted, o1 is neutral
C7_Witness ==
  /\ selectedObject = "o2"
  /\ emissive["m2"] = Accent
  /\ emissive["m1"] = Neutral
  /\ panel.name = "Unnamed Object"

\* C8: a click whose ray meets nothing leaves the selection, every
\* highlight and the info panel as they were.
C8_MissChangesNothing ==
  [][\A cell \in Cells :
       (onClick(cell) /\ Intersect(cell) = Null) =>
         UNCHANGED <<selectedObject, emissive, panel>>]_vars

\* the last click went into the sky while an object was selected
C8_Witness ==
  /\ mouse = "top"
  /\ selectedObject = "o1"
  /\ emissive["m1"] = Accent
  /\ panel = showObjectInfo("o1")

\* C9: a failed texture fetch rejects the promise of its loadBasemap call
\* and leaves the mesh, its texture and its visibility as they were.
C9_FailureSurfaces ==
  [][\A req \in Requests :
       TextureFailed(req) =>
         /\ lastSettle' = "rejected"
         /\ UNCHANGED <<mapMesh, groundMeshes, mapTexture, mapVisible, lastResolved>>]_vars

\* the fetch of a toggle-on failed while the existing mesh was hidden
C9_Witness ==
  /\ lastSettle = "rejected"
  /\ showOSM
  /\ mapMesh # NoMesh
  /\ ~mapVisible
  /\ inflight = EmptyBag

\* C10: at most one object of the scene carries the accent highlight, and
\* it is the selected object.
C10_SingleHighlight ==
  \A o \in SceneObjects : Highlight(o) = Accent => o = selectedObject
====
